---- MODULE Spec2Model ----
(***************************************************************************)
(* Data preparation of examples/timeseries/timeseries_weather_forecasting. *)
(* The script is one sequential run: split index, z-score normalisation,   *)
(* chronological split, the two windowed datasets, then the iterations     *)
(* over them (take(1), fit, take(5)).                                      *)
(*                                                                         *)
(* A matrix is a sequence of rows.  In the pipeline specification a row is *)
(* [row |-> absolute row index in the feature matrix, cols |-> the set of  *)
(* feature columns it still carries]: the slices and the windowing only    *)
(* move rows around, so a row's identity is what the alignment claims are  *)
(* about.  Cell values matter only to normalize, which has a specification *)
(* of its own (SpecNorm) over small integer matrices.                      *)
(***************************************************************************)
EXTENDS Integers, Sequences, FiniteSets, TLC

VARIABLES
    cfg,            \* the module-level parameters (lines 236-244)
    row_count,      \* df.shape[0]
    pc,             \* position of the script
    train_split,
    features, train_data, val_data,
    x_train, y_train, x_val, y_val,
    dataset_train, dataset_val,
    it,             \* the iterator of the running for-loop / fit pass
    log,            \* batches the running (or last) iteration has yielded
    last,           \* summary of the last finished iteration
    batch,          \* loop variable of line 329 (not bound before the first batch)
    epoch,
    \* normalize on value matrices (SpecNorm)
    npc, raw, raw2, nsplit, stats, stats2, normed, normed2

vars == <<cfg, row_count, pc, train_split, features, train_data, val_data,
          x_train, y_train, x_val, y_val, dataset_train, dataset_val,
          it, log, last, batch, epoch,
          npc, raw, raw2, nsplit, stats, stats2, normed, normed2>>

pipevars == <<cfg, row_count, pc, train_split, features, train_data, val_data,
              x_train, y_train, x_val, y_val, dataset_train, dataset_val,
              it, log, last, batch, epoch>>

normvars == <<npc, raw, raw2, nsplit, stats, stats2, normed, normed2>>

(***************************************************************************)
(* Program constants.                                                      *)
(***************************************************************************)
split_num == 715
split_den == 1000
step == 6
past == 720
future == 72
batch_size == 256
epochs == 10
patience == 5
NumFeatures == 7
TargetCol == 1
TakeTrain == 1
TakeVal == 5

(***************************************************************************)
(* Bounds of the model.                                                    *)
(***************************************************************************)
MaxRows == 75
MaxSplitRows == 12
MaxNormRows == 3
MaxVal == 1

Min(a, b) == IF a < b THEN a ELSE b
Max(a, b) == IF a > b THEN a ELSE b

\* The parameters as the script sets them.
Default ==
    [past |-> past, future |-> future, step |-> step, batch_size |-> batch_size,
     num |-> split_num, den |-> split_den]

\* The same parameters scaled down (the same split fraction, a lookback that
\* is a multiple of the step and long against the lead time), so that every
\* row count up to MaxRows can be run.
Small ==
    [past |-> 10, future |-> 1, step |-> 2, batch_size |-> 4,
     num |-> split_num, den |-> split_den]

\* Row counts run with the script's own parameters: the table of exactly
\* past + future rows, one more, the first with a training window, one whose
\* validation partition is shorter than past + future, and one with
\* validation windows.
DefaultRowCounts == {792, 793, 1000, 2700, 5300}

RowCounts(c) == IF c = Default THEN DefaultRowCounts ELSE 0..MaxRows

(***************************************************************************)
(* Slicing.                                                                *)
(***************************************************************************)
\* Python's slice.indices for one bound of s[lo:hi] on a sequence of length n:
\* a negative bound counts from the end, and both are clamped to [0, n].
PyIndex(i, n) == IF i < 0 THEN Max(i + n, 0) ELSE Min(i, n)

\* s[lo:hi] (numpy basic slicing, DataFrame.iloc); rows are 0-based in the
\* code and 1-based in the sequence.
PySlice(s, lo, hi) ==
    SubSeq(s, PyIndex(lo, Len(s)) + 1, PyIndex(hi, Len(s)))

\* df.loc[lo:hi] on the default RangeIndex: label based, both ends included.
LocSliceExclusive(s, lo, hi) ==
    SubSeq(s, Max(lo, 0) + 1, Min(hi, Len(s)))
LocSlice(s, lo, hi) ==
    SubSeq(s, Max(lo, 0) + 1, Min(hi + 1, Len(s)))

\* df[[c1, c2, ...]]: column selection, rows unchanged.
Cols(m, cs) ==
    [i \in 1..Len(m) |-> [row |-> m[i].row, cols |-> m[i].cols \cap cs]]

AllCols == 0..(NumFeatures - 1)

\* The feature matrix of a table of n rows: row i carries all seven columns.
FeatureMatrix(n) == [i \in 1..n |-> [row |-> i - 1, cols |-> AllCols]]

(***************************************************************************)
(* Split and offsets.                                                      *)
(***************************************************************************)
\* train_split = int(split_fraction * int(df.shape[0]))
TrainSplit(c, n) == (c.num * n) \div c.den

TrainData(f, ts) == LocSlice(f, 0, ts - 1)
ValData(f, ts) == LocSlice(f, ts, Len(f))

StartNoFuture(c) == c.past
Start(c) == c.past + c.future
End(c, ts) == Start(c) + ts

SequenceLength(c) == c.past \div c.step

XTrainAllRows(td) == Cols(features, AllCols)
XTrain(td) == Cols(td, AllCols)
YTrain(f, c, ts) == Cols(PySlice(f, Start(c), End(c, ts)), {TargetCol})

XEnd(vd, c) == Len(vd) - c.past - c.future
LabelStartNoSplit(c, ts) == c.past + c.future
LabelStart(c, ts) == ts + c.past + c.future

XVal(vd, c) == Cols(PySlice(vd, 0, XEnd(vd, c)), AllCols)
YVal(f, c, ts) == Cols(PySlice(f, LabelStart(c, ts), Len(f)), {TargetCol})

(***************************************************************************)
(* timeseries_dataset_from_array: the windowed dataset.  Window i holds    *)
(* rows i, i + rate, ..., i + (length - 1) * rate of the data and is       *)
(* paired with targets[i]; a pair needs both, so the pairs stop with the   *)
(* shorter of the two.                                                     *)
(***************************************************************************)
NumSeqs(data, targets, length, rate) ==
    Max(0, Min(Len(data) - (length - 1) * rate, Len(targets)))

TimeseriesDataset(data, targets, length, rate, bs) ==
    [data |-> data, targets |-> targets, sequence_length |-> length,
     sampling_rate |-> rate, batch_size |-> bs,
     num_seqs |-> NumSeqs(data, targets, length, rate)]

Window(ds, i) ==
    [j \in 1..ds.sequence_length |-> ds.data[i + (j - 1) * ds.sampling_rate + 1]]
Target(ds, i) == ds.targets[i + 1]
Pair(ds, i) == [window |-> Window(ds, i), target |-> Target(ds, i)]

NoDataset == TimeseriesDataset(<<>>, <<>>, 0, 1, 1)

(***************************************************************************)
(* normalize(data, train_split) on a matrix of integer cells.  The results *)
(* are kept exact: the mean as the fraction num/den, the population        *)
(* standard deviation as sqrt(num)/den, a scaled cell as num/sqrt(rad).    *)
(* An empty training range gives nan statistics (numpy's mean and std of   *)
(* an empty slice), a zero deviation gives nan or an infinity.             *)
(***************************************************************************)
NormColumns == {0, TargetCol}
Cells == 0..MaxVal
Matrices == UNION {[1..n -> [NormColumns -> Cells]] : n \in 0..MaxNormRows}

RECURSIVE ColSum(_, _)
ColSum(m, c) == IF m = <<>> THEN 0 ELSE Head(m)[c] + ColSum(Tail(m), c)

RECURSIVE ColSumSq(_, _)
ColSumSq(m, c) ==
    IF m = <<>> THEN 0 ELSE Head(m)[c] * Head(m)[c] + ColSumSq(Tail(m), c)

NaN == [kind |-> "nan", num |-> 0, den |-> 0]

\* data[:train_split]
TrainRowsWholeMatrix(data, ts) == data
TrainRows(data, ts) == PySlice(data, 0, ts)

\* data[:train_split].mean(axis=0)
DataMean(data, ts) ==
    LET p == TrainRows(data, ts)
    IN  [c \in NormColumns |->
            IF Len(p) = 0 THEN NaN
            ELSE [kind |-> "frac", num |-> ColSum(p, c), den |-> Len(p)]]

\* data[:train_split].std(axis=0): sqrt(mean(x^2) - mean(x)^2)
DataStd(data, ts) ==
    LET p == TrainRows(data, ts)
    IN  [c \in NormColumns |->
            IF Len(p) = 0 THEN NaN
            ELSE [kind |-> "sqrt",
                  num |-> Len(p) * ColSumSq(p, c) - ColSum(p, c) * ColSum(p, c),
                  den |-> Len(p)]]

\* (x - mean) / std for one cell
Scale(x, mean, std) ==
    IF mean.kind = "nan" \/ std.kind = "nan" THEN [kind |-> "nan", num |-> 0, rad |-> 0]
    ELSE LET d == mean.den * x - mean.num
         IN  IF std.num = 0
             THEN [kind |-> IF d = 0 THEN "nan" ELSE IF d > 0 THEN "inf" ELSE "-inf",
                   num |-> 0, rad |-> 0]
             ELSE [kind |-> "ratio", num |-> d, rad |-> std.num]

\* return (data - data_mean) / data_std
Normalize(data, ts) ==
    [i \in 1..Len(data) |->
        [c \in NormColumns |->
            Scale(data[i][c], DataMean(data, ts)[c], DataStd(data, ts)[c])]]

NormStats(data, ts) == [mean |-> DataMean(data, ts), std |-> DataStd(data, ts)]

(***************************************************************************)
(* Iterating a dataset: every for-loop and every pass of fit makes a new   *)
(* iterator, which yields the pairs in order, batch_size at a time.        *)
(***************************************************************************)
DS(name) == IF name = "train" THEN dataset_train ELSE dataset_val

NewIterResume(name, limited, limit) ==
    [ds |-> name, pos |-> it.pos, taken |-> 0, limited |-> limited, limit |-> limit]
NewIter(name, limited, limit) ==
    [ds |-> name, pos |-> 0, taken |-> 0, limited |-> limited, limit |-> limit]

BatchLenDropRemainder(n, pos, bs) == IF n - pos >= bs THEN bs ELSE 0
BatchLen(n, pos, bs) == Max(0, Min(bs, n - pos))

HasNext(i) == BatchLen(DS(i.ds).num_seqs, i.pos, DS(i.ds).batch_size) > 0
LimitReached(i) == i.limited /\ i.taken >= i.limit

BatchAt(i) ==
    [k \in 1..BatchLen(DS(i.ds).num_seqs, i.pos, DS(i.ds).batch_size) |-> i.pos + k - 1]

NoIter == [ds |-> "none", pos |-> 0, taken |-> 0, limited |-> FALSE, limit |-> 0]
NoBatch == [bound |-> FALSE, items |-> <<>>]
NoFirst == [set |-> FALSE, log |-> <<>>]
NoLast ==
    [ds |-> "none", log |-> <<>>, complete |-> FALSE, partials |-> {},
     first |-> [d \in {"train", "val"} |-> NoFirst]]

IterPcs == {"take1", "fit_train", "fit_val", "predict"}

AfterIter(p) ==
    CASE p = "take1" -> "print"
      [] p = "fit_train" -> "fit_val_start"
      [] p = "fit_val" -> "epoch_end"
      [] OTHER -> "done"

(***************************************************************************)
(* The script, one action per statement group.                             *)
(***************************************************************************)
NormIdle ==
    /\ npc = "idle" /\ raw = <<>> /\ raw2 = <<>> /\ nsplit = 0
    /\ stats = <<>> /\ stats2 = <<>> /\ normed = <<>> /\ normed2 = <<>>

PipeStart ==
    /\ pc = "split" /\ train_split = 0
    /\ features = <<>> /\ train_data = <<>> /\ val_data = <<>>
    /\ x_train = <<>> /\ y_train = <<>> /\ x_val = <<>> /\ y_val = <<>>
    /\ dataset_train = NoDataset /\ dataset_val = NoDataset
    /\ it = NoIter /\ log = <<>> /\ last = NoLast /\ batch = NoBatch /\ epoch = 0

Init ==
    /\ cfg \in {Default, Small}
    /\ row_count \in RowCounts(cfg)
    /\ PipeStart
    /\ NormIdle

\* line 237
ComputeSplit ==
    /\ pc = "split"
    /\ train_split' = TrainSplit(cfg, row_count)
    /\ pc' = "features"
    /\ UNCHANGED <<cfg, row_count, features, train_data, val_data, x_train, y_train,
                   x_val, y_val, dataset_train, dataset_val, it, log, last, batch, epoch>>
    /\ UNCHANGED normvars

\* lines 262-268: select the seven columns, normalize (shape and row order
\* kept), default RangeIndex.
LoadFeatures ==
    /\ pc = "features"
    /\ features' = FeatureMatrix(row_count)
    /\ pc' = "partition"
    /\ UNCHANGED <<cfg, row_count, train_split, train_data, val_data, x_train, y_train,
                   x_val, y_val, dataset_train, dataset_val, it, log, last, batch, epoch>>
    /\ UNCHANGED normvars

\* lines 271-272
SplitData ==
    /\ pc = "partition"
    /\ train_data' = TrainData(features, train_split)
    /\ val_data' = ValData(features, train_split)
    /\ pc' = "train_ds"
    /\ UNCHANGED <<cfg, row_count, train_split, features, x_train, y_train,
                   x_val, y_val, dataset_train, dataset_val, it, log, last, batch, epoch>>
    /\ UNCHANGED normvars

\* lines 280-301
BuildTrain ==
    /\ pc = "train_ds"
    /\ x_train' = XTrain(train_data)
    /\ y_train' = YTrain(features, cfg, train_split)
    /\ dataset_train' = TimeseriesDataset(XTrain(train_data),
                            YTrain(features, cfg, train_split),
                            SequenceLength(cfg), cfg.step, cfg.batch_size)
    /\ pc' = "val_ds"
    /\ UNCHANGED <<cfg, row_count, train_split, features, train_data, val_data,
                   x_val, y_val, dataset_val, it, log, last, batch, epoch>>
    /\ UNCHANGED normvars

\* lines 313-326
BuildVal ==
    /\ pc = "val_ds"
    /\ x_val' = XVal(val_data, cfg)
    /\ y_val' = YVal(features, cfg, train_split)
    /\ dataset_val' = TimeseriesDataset(XVal(val_data, cfg),
                          YVal(features, cfg, train_split),
                          SequenceLength(cfg), cfg.step, cfg.batch_size)
    /\ pc' = "take1_start"
    /\ UNCHANGED <<cfg, row_count, train_split, features, train_data, val_data,
                   x_train, y_train, dataset_train, it, log, last, batch, epoch>>
    /\ UNCHANGED normvars

StartIter(from, to, name, limited, limit) ==
    /\ pc = from
    /\ it' = NewIter(name, limited, limit)
    /\ log' = <<>>
    /\ pc' = to
    /\ UNCHANGED <<cfg, row_count, train_split, features, train_data, val_data,
                   x_train, y_train, x_val, y_val, dataset_train, dataset_val,
                   last, batch, epoch>>
    /\ UNCHANGED normvars

\* line 329: for batch in dataset_train.take(1)
StartTakeOne == StartIter("take1_start", "take1", "train", TRUE, TakeTrain)
\* line 363: fit, the training pass of an epoch
StartFitTrain == StartIter("fit_epoch", "fit_train", "train", FALSE, 0)
\* line 363: fit, the validation pass of an epoch
StartFitVal == StartIter("fit_val_start", "fit_val", "val", FALSE, 0)
\* line 422: for x, y in dataset_val.take(5)
StartPredict == StartIter("predict_start", "predict", "val", TRUE, TakeVal)

\* the iterator yields its next batch
NextBatch ==
    /\ pc \in IterPcs
    /\ HasNext(it)
    /\ ~LimitReached(it)
    /\ it' = [it EXCEPT !.pos = @ + Len(BatchAt(it)), !.taken = @ + 1]
    /\ log' = Append(log, BatchAt(it))
    /\ batch' = IF pc = "take1" THEN [bound |-> TRUE, items |-> BatchAt(it)] ELSE batch
    /\ UNCHANGED <<cfg, row_count, pc, train_split, features, train_data, val_data,
                   x_train, y_train, x_val, y_val, dataset_train, dataset_val,
                   last, epoch>>
    /\ UNCHANGED normvars

\* the loop ends: the iterator is exhausted or take's count is reached
IterStop ==
    /\ pc \in IterPcs
    /\ ~HasNext(it) \/ LimitReached(it)
    /\ last' = [ds |-> it.ds, log |-> log, complete |-> ~HasNext(it),
                partials |-> IF HasNext(it) THEN last.partials \cup {it.ds}
                             ELSE last.partials,
                first |-> IF ~HasNext(it) /\ ~last.first[it.ds].set
                          THEN [last.first EXCEPT ![it.ds] = [set |-> TRUE, log |-> log]]
                          ELSE last.first]
    /\ pc' = AfterIter(pc)
    /\ UNCHANGED <<cfg, row_count, train_split, features, train_data, val_data,
                   x_train, y_train, x_val, y_val, dataset_train, dataset_val,
                   it, log, batch, epoch>>
    /\ UNCHANGED normvars

\* lines 330-333: inputs, targets were bound by the loop body, if it ran
PrintShapes ==
    /\ pc = "print"
    /\ pc' = IF batch.bound THEN "fit_epoch" ELSE "crashed"
    /\ UNCHANGED <<cfg, row_count, train_split, features, train_data, val_data,
                   x_train, y_train, x_val, y_val, dataset_train, dataset_val,
                   it, log, last, batch, epoch>>
    /\ UNCHANGED normvars

\* line 363: an epoch of fit ends and another follows
EpochEnd ==
    /\ pc = "epoch_end"
    /\ epoch' = epoch + 1
    /\ pc' = IF epoch + 1 < epochs THEN "fit_epoch" ELSE "predict_start"
    /\ UNCHANGED <<cfg, row_count, train_split, features, train_data, val_data,
                   x_train, y_train, x_val, y_val, dataset_train, dataset_val,
                   it, log, last, batch>>
    /\ UNCHANGED normvars

\* line 353: EarlyStopping ends fit once val_loss has not improved for
\* `patience` epochs; the losses are not modelled, so any epoch after the
\* first `patience` ones may be the last.
EarlyStop ==
    /\ pc = "epoch_end"
    /\ epoch + 1 > patience
    /\ epoch + 1 < epochs
    /\ epoch' = epoch + 1
    /\ pc' = "predict_start"
    /\ UNCHANGED <<cfg, row_count, train_split, features, train_data, val_data,
                   x_train, y_train, x_val, y_val, dataset_train, dataset_val,
                   it, log, last, batch>>
    /\ UNCHANGED normvars

Next ==
    \/ ComputeSplit
    \/ LoadFeatures
    \/ SplitData
    \/ BuildTrain
    \/ BuildVal
    \/ StartTakeOne
    \/ StartFitTrain
    \/ StartFitVal
    \/ StartPredict
    \/ NextBatch
    \/ IterStop
    \/ PrintShapes
    \/ EpochEnd
    \/ EarlyStop

Spec == Init /\ [][Next]_vars

(***************************************************************************)
(* The split alone, for any split fraction.                                *)
(***************************************************************************)
SplitFractions ==
    {<<1, 2>>, <<1, 3>>, <<2, 3>>, <<1, 10>>, <<9, 10>>, <<1, 100>>, <<99, 100>>,
     <<split_num, split_den>>}

InitSplit ==
    /\ cfg \in {[Small EXCEPT !.num = f[1], !.den = f[2]] : f \in SplitFractions}
    /\ row_count \in 0..MaxSplitRows
    /\ PipeStart
    /\ NormIdle

NextSplit ==
    \/ ComputeSplit
    \/ LoadFeatures
    \/ SplitData

SpecSplit == InitSplit /\ [][NextSplit]_vars

(***************************************************************************)
(* normalize on two matrices that agree on the training range.             *)
(***************************************************************************)
InitNorm ==
    /\ cfg = Default /\ row_count = 0 /\ PipeStart
    /\ raw \in Matrices
    /\ raw2 = raw
    /\ nsplit \in 0..Len(raw)
    /\ npc = "input"
    /\ stats = <<>> /\ stats2 = <<>> /\ normed = <<>> /\ normed2 = <<>>

\* the second matrix gets another value in one cell of a row at or after
\* train_split
Perturb ==
    /\ npc = "input"
    /\ raw2 = raw
    /\ \E r \in (nsplit + 1)..Len(raw), c \in NormColumns, v \in Cells :
          /\ v # raw[r][c]
          /\ raw2' = [raw EXCEPT ![r][c] = v]
    /\ UNCHANGED <<npc, raw, nsplit, stats, stats2, normed, normed2>>
    /\ UNCHANGED pipevars

\* lines 247-250, on both matrices
NormalizeBoth ==
    /\ npc = "input"
    /\ stats' = NormStats(raw, nsplit)
    /\ stats2' = NormStats(raw2, nsplit)
    /\ normed' = Normalize(raw, nsplit)
    /\ normed2' = Normalize(raw2, nsplit)
    /\ npc' = "normalized"
    /\ UNCHANGED <<raw, raw2, nsplit>>
    /\ UNCHANGED pipevars

NextNorm ==
    \/ Perturb
    \/ NormalizeBoth

SpecNorm == InitNorm /\ [][NextNorm]_vars

(***************************************************************************)
(* Properties of the pipeline.                                             *)
(***************************************************************************)
Partitioned == pc \notin {"split", "features", "partition"}
BuiltTrain == Partitioned /\ pc # "train_ds"
BuiltVal == BuiltTrain /\ pc # "val_ds"

\* The datasets are assigned once (BuildTrain, BuildVal) and no later action
\* writes them, so what holds of their windows holds in the state that
\* follows their construction.
TrainJustBuilt == pc = "val_ds"
ValJustBuilt == pc = "take1_start"

RECURSIVE Flatten(_)
Flatten(bs) == IF bs = <<>> THEN <<>> ELSE Head(bs) \o Flatten(Tail(bs))

Rows(m) == {m[i].row : i \in 1..Len(m)}

WindowRows(k, offset, c) ==
    [j \in 1..SequenceLength(c) |->
        [row |-> offset + k + (j - 1) * c.step, cols |-> AllCols]]

\* C1: every training window with start index k holds feature-matrix rows
\* k, k + step, ..., k + (sequence_length - 1) * step and is paired with the
\* target column at absolute row k + past + future; with the script's
\* parameters sequence_length is 120 and the first window's target is row 792.
C1_TrainTargetAlignment ==
    TrainJustBuilt =>
        /\ \A k \in 0..(dataset_train.num_seqs - 1) :
              /\ Window(dataset_train, k) = WindowRows(k, 0, cfg)
              /\ Target(dataset_train, k) =
                    [row |-> k + cfg.past + cfg.future, cols |-> {TargetCol}]
        /\ (cfg = Default /\ dataset_train.num_seqs > 0) =>
              /\ dataset_train.sequence_length = 120
              /\ Target(dataset_train, 0).row = 792

C1_Witness ==
    TrainJustBuilt /\ cfg = Default /\ dataset_train.num_seqs > 1

\* C2: every validation window with start index j (absolute row
\* train_split + j) is paired with the target column at absolute row
\* train_split + past + future + j, a row of the table.
C2_ValTargetAlignment ==
    ValJustBuilt =>
        \A k \in 0..(dataset_val.num_seqs - 1) :
            /\ Window(dataset_val, k) = WindowRows(k, train_split, cfg)
            /\ Target(dataset_val, k) =
                  [row |-> train_split + cfg.past + cfg.future + k,
                   cols |-> {TargetCol}]
            /\ Target(dataset_val, k).row < row_count

C2_Witness ==
    ValJustBuilt /\ dataset_val.num_seqs > 1

\* C5 (as claimed): x_val is exactly the validation rows with local index in
\* [0, len(val_data) - past - future), none at all when that bound is <= 0;
\* it holds none of the last past + future validation rows and is as long as
\* y_val.
C5_ValInputTruncation ==
    BuiltVal =>
        LET n == Len(val_data)
            bound == Max(0, n - cfg.past - cfg.future)
        IN  /\ x_val = [i \in 1..bound |-> val_data[i]]
            /\ \A i \in 1..Len(x_val) :
                  x_val[i].row < row_count - cfg.past - cfg.future
            /\ Len(x_val) = Len(y_val)

\* C7 (as claimed): the windows of a dataset start at 0, 1, 2, ..., each has
\* sequence_length timesteps, and there are
\* max(0, len(X) - (sequence_length - 1) * sampling_rate) of them.
WindowRule(ds) ==
    /\ ds.num_seqs =
          Max(0, Len(ds.data) - (ds.sequence_length - 1) * ds.sampling_rate)
    /\ \A k \in 0..(ds.num_seqs - 1) :
          /\ Len(Window(ds, k)) = ds.sequence_length
          /\ Window(ds, k)[1] = ds.data[k + 1]

C7_WindowGenerationRule ==
    /\ TrainJustBuilt => WindowRule(dataset_train)
    /\ ValJustBuilt => WindowRule(dataset_val)

\* C8: a finished complete iteration over total_windows > 0 windows yielded
\* them in order in batches of batch_size, the last of total_windows mod
\* batch_size (batch_size if that is 0); no window is dropped.
C8_BatchingKeepsEveryWindow ==
    /\ \A b \in 1..(Len(log) - 1) : Len(log[b]) = cfg.batch_size
    /\ (last.ds # "none" /\ last.complete /\ DS(last.ds).num_seqs > 0) =>
          LET n == DS(last.ds).num_seqs
              bs == cfg.batch_size
              l == last.log
          IN  /\ Len(l) > 0
              /\ \A b \in 1..(Len(l) - 1) : Len(l[b]) = bs
              /\ Len(l[Len(l)]) = (IF n % bs = 0 THEN bs ELSE n % bs)
              /\ Len(Flatten(l)) = n
              /\ Flatten(l) = [k \in 1..n |-> k - 1]

C8_Witness ==
    /\ last.ds = "train" /\ last.complete
    /\ dataset_train.num_seqs > 2 * cfg.batch_size
    /\ dataset_train.num_seqs % cfg.batch_size # 0

\* C9: every complete iteration over a dataset, also one that follows a
\* partial or a complete one, yields the pairs in increasing start-index
\* order, each once, as the first complete iteration did.
C9_RestartableIteration ==
    (last.ds # "none" /\ last.complete) =>
        /\ Flatten(last.log) = [k \in 1..DS(last.ds).num_seqs |-> k - 1]
        /\ last.first[last.ds].set
        /\ Flatten(last.log) = Flatten(last.first[last.ds].log)

C9_Witness ==
    /\ last.ds = "train" /\ last.complete /\ "train" \in last.partials
    /\ epoch > 0

\* C10 (as claimed): every input row and the target row of every training
\* pair have an absolute index below train_split.
C10_NoValidationRowInTraining ==
    TrainJustBuilt =>
        \A k \in 0..(dataset_train.num_seqs - 1) :
            /\ \A j \in 1..dataset_train.sequence_length :
                  Window(dataset_train, k)[j].row < train_split
            /\ Target(dataset_train, k).row < train_split

\* C10 (amended): every input row of every training pair has an absolute
\* index below train_split; the target row is
\* k + past + future < train_split + past + future - (sequence_length - 1) * step,
\* which reaches into the validation partition.
C10_TrainingRowsBounded ==
    TrainJustBuilt =>
        \A k \in 0..(dataset_train.num_seqs - 1) :
            /\ \A j \in 1..dataset_train.sequence_length :
                  Window(dataset_train, k)[j].row < train_split
            /\ Target(dataset_train, k).row <
                  train_split + cfg.past + cfg.future
                      - (SequenceLength(cfg) - 1) * cfg.step

C10_Witness ==
    /\ TrainJustBuilt /\ cfg = Default /\ dataset_train.num_seqs > 0
    /\ Target(dataset_train, dataset_train.num_seqs - 1).row >= train_split

ScaledBy(out, in, st) ==
    /\ Len(out) = Len(in)
    /\ \A i \in 1..Len(in) :
          /\ DOMAIN out[i] = DOMAIN in[i]
          /\ \A c \in DOMAIN in[i] : out[i][c] = Scale(in[i][c], st.mean[c], st.std[c])

C4_NormalizationStatisticScope ==
    npc = "normalized" =>
        /\ SubSeq(raw, 1, nsplit) = SubSeq(raw2, 1, nsplit)
        /\ stats = stats2
        /\ ScaledBy(normed, raw, stats)
        /\ ScaledBy(normed2, raw2, stats)

C4_Witness ==
    /\ npc = "normalized"
    /\ raw2 # raw
    /\ 0 < nsplit /\ nsplit < Len(raw)
    /\ normed2 # normed

====
